---- MODULE Spec2Model ----
(***************************************************************************)
(* Model of the model-selection layer of the `si` toolkit and of the       *)
(* estimator it tunes:                                                     *)
(*   src/src/si/linear_model/ridge_regression.py   RidgeRegression         *)
(*   src/src/si/model_selection/cross_validate.py  cross_validate          *)
(*   src/src/si/model_selection/grid_search.py     grid_search_cv          *)
(*   src/src/si/model_selection/randomized_search.py randomized_search_cv  *)
(*                                                                         *)
(* One caller owns one RidgeRegression instance (`model`) and calls the    *)
(* public operations one after the other.  Execution is single-threaded:   *)
(* the frames fitf / cvf / gsf / rsf are the activation records of fit,    *)
(* cross_validate, grid_search_cv and randomized_search_cv, and exactly    *)
(* the innermost active one can take a step.                               *)
(*                                                                         *)
(* Numbers are exact rationals <<numerator, denominator>> in lowest terms; *)
(* the inputs are dyadic, so every value the code computes in binary       *)
(* floating point is represented without rounding.  <<1, 0>> is np.inf.    *)
(***************************************************************************)
EXTENDS Integers, Sequences, FiniteSets, TLC

----------------------------------------------------------------------------
(* Bounds of the exploration *)

\* number of public calls the caller makes after constructing the model
MaxCalls == 2
\* largest n_iter the caller asks for
MaxNIter == 1
\* a gradient-descent step is explored while theta keeps a denominator of at
\* most 2^MaxDenBits (keeps the exact arithmetic inside machine integers)
MaxDenBits == 10

----------------------------------------------------------------------------
(* Exact arithmetic *)

None == <<>>

Abs(x) == IF x < 0 THEN -x ELSE x

RECURSIVE GCD(_, _)
GCD(a, b) == IF b = 0 THEN a ELSE GCD(b, a % b)

RECURSIVE Pow2(_)
Pow2(k) == IF k = 0 THEN 1 ELSE 2 * Pow2(k - 1)

\* the rational n/d (d > 0) in lowest terms
Q(n, d) == LET g == GCD(Abs(n), d) IN <<n \div g, d \div g>>

Inf == <<1, 0>>
NegInf == <<-1, 0>>
NaN == <<0, 0>>
Zero == <<0, 1>>
One == <<1, 1>>
Int2Q(k) == <<k, 1>>

IsFinite(a) == a[2] # 0

Neg(a) == <<-a[1], a[2]>>

Add(a, b) ==
    IF IsFinite(a) /\ IsFinite(b)
    THEN LET g == GCD(a[2], b[2])
             L == (a[2] \div g) * b[2]
         IN Q(a[1] * (L \div a[2]) + b[1] * (L \div b[2]), L)
    ELSE IF IsFinite(b) THEN a
    ELSE IF IsFinite(a) THEN b
    ELSE IF a = b THEN a ELSE NaN

Sub(a, b) == Add(a, Neg(b))

Mul(a, b) ==
    IF IsFinite(a) /\ IsFinite(b)
    THEN LET g1 == GCD(Abs(a[1]), b[2])
             g2 == GCD(Abs(b[1]), a[2])
         IN Q((a[1] \div g1) * (b[1] \div g2), (a[2] \div g2) * (b[2] \div g1))
    ELSE IF a[1] * b[1] > 0 THEN Inf
    ELSE IF a[1] * b[1] < 0 THEN NegInf ELSE NaN

RAbs(a) == <<Abs(a[1]), a[2]>>

\* a < b as IEEE comparison: every comparison with NaN is false
Less(a, b) ==
    IF IsFinite(a) /\ IsFinite(b) THEN Sub(a, b)[1] < 0
    ELSE IF a = NaN \/ b = NaN THEN FALSE
    ELSE (a = NegInf /\ b # NegInf) \/ (b = Inf /\ a # Inf)

\* a <= 0
LeqZero(a) == a = Zero \/ Less(a, Zero)

RECURSIVE SumSeq(_)
SumSeq(s) == IF s = <<>> THEN Zero ELSE Add(s[1], SumSeq(Tail(s)))

\* a vector given as a function on 1 .. n, as the tuple of its components
Vec(f) == f \o <<>>

\* np.dot of two vectors of the same length
Dot(u, v) == SumSeq(Vec([k \in 1..Len(u) |-> Mul(u[k], v[k])]))

\* np.zeros(n)
Zeros(n) == [k \in 1..n |-> Zero]

----------------------------------------------------------------------------
(* Dataset: feature matrix X (sequence of rows) and label vector y *)

Dataset(X, y) == [X |-> X, y |-> y]

\* dataset.shape() -> (n_examples, n_features)
shape(dataset) ==
    <<Len(dataset.X), IF dataset.X = <<>> THEN 0 ELSE Len(dataset.X[1])>>

Row(x, y) == <<x, y>>

\* builds a one-feature dataset from <<feature, label>> integer pairs
OneFeature(rows) ==
    Dataset([j \in 1..Len(rows) |-> <<Int2Q(rows[j][1])>>],
            [j \in 1..Len(rows) |-> Int2Q(rows[j][2])])

\* the datasets the caller fits directly (two examples each)
DS_sym == OneFeature(<<Row(1, 1), Row(-1, -1)>>)
DS_big == OneFeature(<<Row(1, 2), Row(-1, -2)>>)
DS_null == OneFeature(<<Row(1, 0), Row(-1, 0)>>)
\* the dataset the caller cross-validates on (three examples)
DS_cv == OneFeature(<<Row(1, 1), Row(-1, -1), Row(0, 1)>>)

FitDatasets == {DS_sym, DS_big, DS_null}
CvDatasets == {DS_cv}

----------------------------------------------------------------------------
(* Results of a call: a value returned or an exception raised *)

Returned(v) == [kind |-> "returned", error |-> "", about |-> "", value |-> v]
Raised(e, what) == [kind |-> "raised", error |-> e, about |-> what, value |-> None]
NoOutcome == [kind |-> "none", error |-> "", about |-> "", value |-> None]

----------------------------------------------------------------------------
(* RidgeRegression *)

\* _check_init without its last test (tolerance is not validated)
check_init_without_tolerance(l2_penalty, alpha, max_iter, tolerance) ==
    IF LeqZero(l2_penalty) THEN Raised("ValueError", "l2_penalty")
    ELSE IF LeqZero(alpha) THEN Raised("ValueError", "alpha")
    ELSE IF max_iter < 1 THEN Raised("ValueError", "max_iter")
    ELSE Returned(None)

\* RidgeRegression._check_init: the first violated constraint raises
check_init(l2_penalty, alpha, max_iter, tolerance) ==
    IF LeqZero(l2_penalty) THEN Raised("ValueError", "l2_penalty")
    ELSE IF LeqZero(alpha) THEN Raised("ValueError", "alpha")
    ELSE IF max_iter < 1 THEN Raised("ValueError", "max_iter")
    ELSE IF LeqZero(tolerance) THEN Raised("ValueError", "tolerance")
    ELSE Returned(None)

\* the instance RidgeRegression.__init__ builds once _check_init has passed
NewModel(l2_penalty, alpha, max_iter, tolerance, adaptative_alpha) ==
    [exists |-> TRUE,
     l2_penalty |-> l2_penalty,
     alpha |-> alpha,
     max_iter |-> max_iter,
     tolerance |-> tolerance,
     adaptative_alpha |-> adaptative_alpha,
     fitted |-> FALSE,
     theta |-> None,
     theta_zero |-> None,
     cost_history |-> <<>>]

\* no instance: the name the caller would bind the instance to is unbound
NoModel ==
    [exists |-> FALSE,
     l2_penalty |-> None,
     alpha |-> None,
     max_iter |-> 0,
     tolerance |-> None,
     adaptative_alpha |-> FALSE,
     fitted |-> FALSE,
     theta |-> None,
     theta_zero |-> None,
     cost_history |-> <<>>]

\* the names hasattr(model, name) finds on a RidgeRegression instance
ModelAttributes ==
    {"l2_penalty", "alpha", "max_iter", "tolerance", "adaptative_alpha",
     "fitted", "theta", "theta_zero", "cost_history",
     "fit", "predict", "score", "cost"}

hasattr(m, name) == name \in ModelAttributes

\* setattr(m, name, value) for the hyperparameters the searches set
setattr(m, name, value) ==
    IF name = "l2_penalty" THEN [m EXCEPT !.l2_penalty = value]
    ELSE IF name = "alpha" THEN [m EXCEPT !.alpha = value]
    ELSE IF name = "max_iter" THEN [m EXCEPT !.max_iter = value]
    ELSE IF name = "tolerance" THEN [m EXCEPT !.tolerance = value]
    ELSE IF name = "adaptative_alpha" THEN [m EXCEPT !.adaptative_alpha = value]
    ELSE m

\* X @ theta + theta_zero
LinearOutput(m, dataset) ==
    Vec([j \in 1..Len(dataset.X) |-> Add(Dot(dataset.X[j], m.theta), m.theta_zero)])

\* RidgeRegression._gradient_descent_iter: the model after one iteration
gradient_descent_iter(m, dataset, n_examples) ==
    LET y_pred == LinearOutput(m, dataset)
        resid == Vec([j \in 1..Len(dataset.y) |-> Sub(y_pred[j], dataset.y[j])])
        scale == Mul(m.alpha, <<1, n_examples>>)
        gradient == Vec([k \in 1..Len(m.theta) |->
                        Mul(scale, SumSeq(Vec([j \in 1..Len(resid) |->
                                              Mul(resid[j], dataset.X[j][k])])))])
        penalization_term == Vec([k \in 1..Len(m.theta) |->
                        Mul(Mul(m.theta[k], m.alpha),
                            Mul(m.l2_penalty, <<1, n_examples>>))])
        gradient_zero == Mul(scale, SumSeq(resid))
    IN [m EXCEPT
          !.theta = Vec([k \in 1..Len(m.theta) |->
                        Sub(Sub(m.theta[k], gradient[k]), penalization_term[k])]),
          !.theta_zero = Sub(m.theta_zero, gradient_zero)]

\* RidgeRegression.predict
predict(m, dataset) ==
    IF ~m.fitted THEN Raised("Warning", "predict")
    ELSE Returned(LinearOutput(m, dataset))

\* r2_score of the metrics package, kept symbolic: the scoring function
\* applied to the true and the predicted labels
r2_score(y_true, y_pred) == <<"r2_score", y_true, y_pred>>

\* score without its own guard: an unfitted model is caught by predict only
score_unguarded(m, dataset) ==
    LET y_pred == predict(m, dataset)
    IN IF y_pred.kind = "raised" THEN y_pred
       ELSE Returned(r2_score(dataset.y, y_pred.value))

\* RidgeRegression.score
score(m, dataset) ==
    IF ~m.fitted THEN Raised("Warning", "score")
    ELSE LET y_pred == predict(m, dataset)
         IN IF y_pred.kind = "raised" THEN y_pred
            ELSE Returned(r2_score(dataset.y, y_pred.value))

\* RidgeRegression.cost
cost(m, dataset) ==
    IF ~m.fitted THEN Raised("Warning", "cost")
    ELSE LET y_pred == predict(m, dataset)
         IN IF y_pred.kind = "raised" THEN y_pred
            ELSE LET sq(x) == Mul(x, x)
                     sse == SumSeq(Vec([j \in 1..Len(dataset.y) |->
                                       sq(Sub(y_pred.value[j], dataset.y[j]))]))
                     regularization ==
                         Mul(m.l2_penalty,
                             SumSeq(Vec([k \in 1..Len(m.theta) |-> sq(m.theta[k])])))
                 IN Returned(Mul(Add(sse, regularization),
                                 <<1, 2 * Len(dataset.y)>>))

\* cost_history.get(k, default)
HistoryGet(h, k, default) == IF k \in DOMAIN h THEN h[k] ELSE default

\* cost_history[k] = c
HistoryPut(h, k, c) ==
    [j \in (DOMAIN h) \cup {k} |-> IF j = k THEN c ELSE h[j]]

\* abs(cost_history[i] - cost_history.get(i-1, np.inf)) < tolerance
BelowTolerance(m, i) ==
    Less(RAbs(Sub(m.cost_history[i], HistoryGet(m.cost_history, i - 1, Inf))),
         m.tolerance)

----------------------------------------------------------------------------
(* Inputs the caller draws from *)

Half == <<1, 2>>
Sixteenth == <<1, 16>>

L2Values == {Zero, One}
AlphaValues == {Zero, One}
MaxIterValues == {0, 3}
ToleranceValues == {Zero, Sixteenth}
\* scoring=None, or some callable taking (y_true, y_pred)
Scorings == {"None", "callable"}

\* parameter grids of grid_search_cv
G_empty == <<>>
G_two == << <<"alpha", <<One, Zero>>>>, <<"max_iter", <<3>>>> >>
G_dup == << <<"max_iter", <<1, 1>>>> >>
G_novalue == << <<"max_iter", <<>>>> >>
G_unknown == << <<"unknown_param", <<1>>>> >>
G_unknown2 == << <<"alpha", <<Half>>>>, <<"unknown_param", <<1>>>> >>
Grids == {G_empty, G_two, G_dup, G_novalue, G_unknown, G_unknown2}

\* parameter distributions of randomized_search_cv
D_two == << <<"alpha", <<Half, One>>>>, <<"max_iter", <<1, 3>>>> >>
D_unknown == << <<"max_iter", <<1, 3>>>>, <<"unknown_param", <<1>>>> >>
Distributions == {D_two, D_unknown}
\* the longest list of candidate values of a distribution
MaxChoices == 2

RandomStates == {None, <<1>>}
TestSizes == {Zero, Half, One}
\* cv values given to randomized_search_cv: below, inside and above [1, n_examples]
RsCvValues == {0, 1, 4}
\* numbers of folds given to cross_validate
CvValues == {1, 2}
\* numbers of folds given to grid_search_cv
GridCvValues == {1}
\* a grid of one combination, searched with two folds
G_alpha == << <<"alpha", <<One>>>> >>
\* the <<parameter_grid, cv>> pairs given to grid_search_cv
GridInputs == (Grids \X GridCvValues) \cup {<<G_alpha, 2>>}
\* the seeds a fold may draw (the code draws from 0 .. 999)
Seeds == {0, 1}

----------------------------------------------------------------------------
(* State *)

VARIABLES
    model,      \* the caller's RidgeRegression instance (NoModel before it exists)
    Model,      \* the copy randomized_search_cv works on (line 93)
    call,       \* the public call in progress, or the last one finished
    outcome,    \* what the last finished call returned or raised
    prev,       \* what the caller kept of the call before `call`
    fitf,       \* activation record of RidgeRegression.fit
    cvf,        \* activation record of cross_validate
    gsf,        \* activation record of grid_search_cv
    rsf         \* activation record of randomized_search_cv

vars == <<model, Model, call, outcome, prev, fitf, cvf, gsf, rsf>>

FitOff ==
    [pc |-> "off", caller |-> "", dataset |-> None, m |-> 0, n_range |-> 0,
     i |-> 0, converged |-> FALSE, adaptative |-> FALSE]
CvOff ==
    [pc |-> "off", caller |-> "", dataset |-> None, cv |-> 0, test_size |-> None,
     scoring |-> "None", i |-> 0,
     scores |-> [seeds |-> <<>>, train |-> <<>>, test |-> <<>>],
     ds_train |-> None, ds_test |-> None]
GsOff ==
    [pc |-> "off", parameter_grid |-> <<>>, combs |-> <<>>, k |-> 0,
     parameters |-> <<>>, score |-> None, scores |-> <<>>]
RsOff ==
    [pc |-> "off", i |-> 0, parameters |-> <<>>, scores |-> <<>>]

NoCall == [fn |-> "none", args |-> None, pre |-> NoModel, active |-> FALSE, n |-> 0]
NoPrev == [fn |-> "none", repeated |-> FALSE, post |-> NoModel,
           outcome |-> NoOutcome]

Init ==
    /\ model = NoModel
    /\ Model = NoModel
    /\ call = NoCall
    /\ outcome = NoOutcome
    /\ prev = NoPrev
    /\ fitf = FitOff
    /\ cvf = CvOff
    /\ gsf = GsOff
    /\ rsf = RsOff

\* Of the call it made before, the caller keeps which operation it was,
\* whether the call in progress repeats it with the same inputs, the model
\* as that call left it and the kind of its outcome; it keeps the score
\* records of a randomized search only
Kept(fn, o) ==
    IF fn = "randomized_search_cv" THEN o ELSE [o EXCEPT !.value = None]

\* the caller starts the public operation fn on its model; the call is still
\* in progress after its first step when `active`
Start(fn, args, active) ==
    /\ ~call.active
    /\ model.exists
    /\ call.n < MaxCalls
    /\ call' = [fn |-> fn, args |-> args, pre |-> model, active |-> active,
                n |-> call.n + 1]
    /\ prev' = [fn |-> call.fn,
                repeated |-> (call.fn = fn /\ call.args = args),
                post |-> model,
                outcome |-> Kept(call.fn, outcome)]

\* the public call in progress ends with result r
Finished == [call EXCEPT !.active = FALSE]

----------------------------------------------------------------------------
(* RidgeRegression.__init__ *)

Construct(l2_penalty, alpha, max_iter, tolerance, adaptative_alpha) ==
    /\ ~call.active
    /\ ~model.exists
    /\ LET checked == check_init(l2_penalty, alpha, max_iter, tolerance)
       IN /\ outcome' = checked
          /\ model' = IF checked.kind = "raised" THEN model
                      ELSE NewModel(l2_penalty, alpha, max_iter, tolerance,
                                    adaptative_alpha)
    /\ call' = [fn |-> "__init__",
                args |-> [l2_penalty |-> l2_penalty, alpha |-> alpha,
                          max_iter |-> max_iter, tolerance |-> tolerance,
                          adaptative_alpha |-> adaptative_alpha],
                pre |-> model, active |-> FALSE, n |-> 0]
    /\ UNCHANGED <<Model, prev, fitf, cvf, gsf, rsf>>

----------------------------------------------------------------------------
(* RidgeRegression.fit *)

\* fit up to the loop: fitted is set, theta and theta_zero are zeroed
FitEntry(m, dataset) ==
    [m EXCEPT !.fitted = TRUE,
              !.theta = Zeros(shape(dataset)[2]),
              !.theta_zero = Zero]

\* the activation record of fit at the head of its loop
FitFrame(m, dataset, caller) ==
    [pc |-> "loop", caller |-> caller, dataset |-> dataset,
     m |-> shape(dataset)[1], n_range |-> m.max_iter,
     i |-> 0, converged |-> FALSE, adaptative |-> m.adaptative_alpha]

Den(a) == IF a = None THEN 1 ELSE IF a[2] = 0 THEN 1 ELSE a[2]

Max2(a, b) == IF a < b THEN b ELSE a

\* the next gradient-descent step keeps theta within the explored precision
Representable(m, n_examples) ==
    Max2(Den(m.theta[1]), Den(m.theta_zero)) * Den(m.alpha) * n_examples
        <= Pow2(MaxDenBits)

\* what fit hands to its caller when it returns self
FitReturnsTo(caller) ==
    IF caller = "main"
    THEN /\ call' = Finished
         /\ outcome' = Returned("self")
         /\ cvf' = cvf
    ELSE /\ cvf' = [cvf EXCEPT !.pc = "score"]
         /\ UNCHANGED <<call, outcome>>

\* an exception leaves every active frame and reaches the caller
Propagate(exc) ==
    /\ call' = Finished
    /\ outcome' = exc
    /\ fitf' = FitOff
    /\ cvf' = CvOff
    /\ gsf' = GsOff
    /\ rsf' = RsOff

\* a loop test of _regular_fit that ignores `converged`
RegularContinues_to_max_iter(m, f) == f.i < m.max_iter

\* loop test of _regular_fit
RegularContinues(m, f) == f.i < m.max_iter /\ ~f.converged

\* a loop test of _adaptative_fit that stops, like _regular_fit, once the
\* last iteration was below the tolerance
AdaptativeContinues_until_lower(m, f) ==
    f.i < f.n_range /\ ~(f.i >= 1 /\ BelowTolerance(m, f.i - 1))

\* loop test of _adaptative_fit
AdaptativeContinues(m, f) == f.i < f.n_range

\* the learning rate after an iteration of _adaptative_fit
UpdatedAlpha(m, is_lower) == IF is_lower THEN Mul(m.alpha, Half) ELSE m.alpha

Fit(dataset) ==
    /\ Start("fit", [dataset |-> dataset], TRUE)
    /\ model' = FitEntry(model, dataset)
    /\ fitf' = FitFrame(model, dataset, "main")
    /\ outcome' = NoOutcome
    /\ UNCHANGED <<Model, cvf, gsf, rsf>>

\* one iteration of the loop of _regular_fit
RegularIter ==
    /\ fitf.pc = "loop"
    /\ ~fitf.adaptative
    /\ RegularContinues(model, fitf)
    /\ Representable(model, fitf.m)
    /\ LET stepped == gradient_descent_iter(model, fitf.dataset, fitf.m)
           c == cost(stepped, fitf.dataset)
       IN IF c.kind = "raised"
          THEN /\ model' = stepped
               /\ Propagate(c)
          ELSE LET recorded == [stepped EXCEPT !.cost_history =
                                   HistoryPut(stepped.cost_history, fitf.i, c.value)]
               IN /\ model' = recorded
                  /\ fitf' = [fitf EXCEPT !.converged = BelowTolerance(recorded, fitf.i),
                                          !.i = fitf.i + 1]
                  /\ UNCHANGED <<call, outcome, cvf, gsf, rsf>>
    /\ UNCHANGED <<Model, prev>>

\* one iteration of the loop of _adaptative_fit
AdaptativeIter ==
    /\ fitf.pc = "loop"
    /\ fitf.adaptative
    /\ AdaptativeContinues(model, fitf)
    /\ Representable(model, fitf.m)
    /\ LET stepped == gradient_descent_iter(model, fitf.dataset, fitf.m)
           c == cost(stepped, fitf.dataset)
       IN IF c.kind = "raised"
          THEN /\ model' = stepped
               /\ Propagate(c)
          ELSE LET recorded == [stepped EXCEPT !.cost_history =
                                   HistoryPut(stepped.cost_history, fitf.i, c.value)]
                   is_lower == BelowTolerance(recorded, fitf.i)
               IN /\ model' = [recorded EXCEPT !.alpha = UpdatedAlpha(recorded, is_lower)]
                  /\ fitf' = [fitf EXCEPT !.i = fitf.i + 1]
                  /\ UNCHANGED <<call, outcome, cvf, gsf, rsf>>
    /\ UNCHANGED <<Model, prev>>

\* the loop is over: fit returns self
FitReturn ==
    /\ fitf.pc = "loop"
    /\ IF fitf.adaptative THEN ~AdaptativeContinues(model, fitf)
                          ELSE ~RegularContinues(model, fitf)
    /\ fitf' = FitOff
    /\ FitReturnsTo(fitf.caller)
    /\ UNCHANGED <<model, Model, prev, gsf, rsf>>

----------------------------------------------------------------------------
(* RidgeRegression.predict / score / cost called by the caller *)

Predict(dataset) ==
    /\ Start("predict", [dataset |-> dataset], FALSE)
    /\ outcome' = predict(model, dataset)
    /\ UNCHANGED <<model, Model, fitf, cvf, gsf, rsf>>

Score(dataset) ==
    /\ Start("score", [dataset |-> dataset], FALSE)
    /\ outcome' = score(model, dataset)
    /\ UNCHANGED <<model, Model, fitf, cvf, gsf, rsf>>

Cost(dataset) ==
    /\ Start("cost", [dataset |-> dataset], FALSE)
    /\ outcome' = cost(model, dataset)
    /\ UNCHANGED <<model, Model, fitf, cvf, gsf, rsf>>

----------------------------------------------------------------------------
(* Calling a Python function with positional arguments *)

\* binds the positional arguments to the parameters, in order; more
\* arguments than parameters is a TypeError raised before the body runs
BindArgs(fn, params, args) ==
    IF Len(args) > Len(params) THEN Raised("TypeError", fn)
    ELSE Returned([k \in 1..Len(args) |-> <<params[k], args[k]>>])

\* the value bound to parameter name p
Bound(binding, p) ==
    LET k == CHOOSE j \in 1..Len(binding) : binding[j][1] = p
    IN binding[k][2]

\* def cross_validate(model, dataset, cv=5, test_size=0.3, scoring=None)
CrossValidateParams == <<"model", "dataset", "cv", "test_size", "scoring">>

----------------------------------------------------------------------------
(* train_test_split of split.py: a partition decided by the seed *)

\* int(n_samples * test_size)
NTest(n_samples, test_size) == (n_samples * test_size[1]) \div test_size[2]

\* the permutation of 1 .. n the seed stands for
Permutation(seed, n) == [j \in 1..n |-> ((j - 1 + seed) % n) + 1]

Select(dataset, idxs) ==
    Dataset([j \in 1..Len(idxs) |-> dataset.X[idxs[j]]],
            [j \in 1..Len(idxs) |-> dataset.y[idxs[j]]])

\* (train, test): the first n_test permuted examples are the test partition
train_test_split(dataset, test_size, random_state) ==
    LET n == shape(dataset)[1]
        n_test == NTest(n, test_size)
        perm == Permutation(random_state, n)
    IN <<Select(dataset, SubSeq(perm, n_test + 1, n)),
         Select(dataset, SubSeq(perm, 1, n_test))>>

----------------------------------------------------------------------------
(* cross_validate *)

\* the names bound in the module cross_validate.py when cross_validate runs
CrossValidateNames ==
    {"np", "sys", "Dataset", "train_test_split", "Callable", "cross_validate"}

\* the activation record of cross_validate at the head of its loop
CvFrame(binding, caller) ==
    [pc |-> "fold", caller |-> caller,
     dataset |-> Bound(binding, "dataset"),
     cv |-> Bound(binding, "cv"),
     test_size |-> Bound(binding, "test_size"),
     scoring |-> Bound(binding, "scoring"),
     i |-> 0,
     scores |-> [seeds |-> <<>>, train |-> <<>>, test |-> <<>>],
     ds_train |-> None, ds_test |-> None]

\* lines 50-51: score(ds_train.y, model.predict(ds_test)) and
\* score(ds_test.y, model.predict(ds_test)); the callee name is looked up first
ExternalScores(m, ds_train, ds_test) ==
    IF "score" \notin CrossValidateNames THEN Raised("NameError", "score")
    ELSE LET p == predict(m, ds_test)
         IN IF p.kind = "raised" THEN p
            ELSE Returned(<<<<"score", ds_train.y, p.value>>,
                            <<"score", ds_test.y, p.value>>>>)

\* lines 46-47: model.score(ds_train) and model.score(ds_test)
ModelScores(m, ds_train, ds_test) ==
    LET tr == score(m, ds_train)
        te == score(m, ds_test)
    IN IF tr.kind = "raised" THEN tr
       ELSE IF te.kind = "raised" THEN te
       ELSE Returned(<<tr.value, te.value>>)

\* the train and test score of a fold
FoldScores(m, scoring, ds_train, ds_test) ==
    IF scoring = "None" THEN ModelScores(m, ds_train, ds_test)
    ELSE ExternalScores(m, ds_train, ds_test)

\* the caller calls cross_validate(model, dataset, cv, test_size, scoring)
CrossValidate(dataset, cv, test_size, scoring) ==
    /\ Start("cross_validate",
             [dataset |-> dataset, cv |-> cv, test_size |-> test_size,
              scoring |-> scoring], TRUE)
    /\ LET b == BindArgs("cross_validate", CrossValidateParams,
                         <<"model", dataset, cv, test_size, scoring>>)
       IN /\ b.kind = "returned"
          /\ cvf' = CvFrame(b.value, "main")
    /\ outcome' = NoOutcome
    /\ UNCHANGED <<model, Model, fitf, gsf, rsf>>

\* a fold that does not add its seed to scores["seeds"]
CvFold_seed_not_recorded(seed) ==
    /\ cvf.pc = "fold"
    /\ cvf.i < cvf.cv
    /\ LET parts == train_test_split(cvf.dataset, cvf.test_size, seed)
       IN /\ cvf' = [cvf EXCEPT !.pc = "fitting",
                                !.ds_train = parts[1],
                                !.ds_test = parts[2]]
          /\ model' = FitEntry(model, parts[1])
          /\ fitf' = FitFrame(model, parts[1], "cv")
    /\ UNCHANGED <<Model, call, outcome, prev, gsf, rsf>>

\* lines 36-43: a fold draws its seed, splits and calls model.fit(ds_train)
CvFold(seed) ==
    /\ cvf.pc = "fold"
    /\ cvf.i < cvf.cv
    /\ LET parts == train_test_split(cvf.dataset, cvf.test_size, seed)
       IN /\ cvf' = [cvf EXCEPT !.pc = "fitting",
                                !.scores.seeds = Append(cvf.scores.seeds, seed),
                                !.ds_train = parts[1],
                                !.ds_test = parts[2]]
          /\ model' = FitEntry(model, parts[1])
          /\ fitf' = FitFrame(model, parts[1], "cv")
    /\ UNCHANGED <<Model, call, outcome, prev, gsf, rsf>>

\* lines 44-54: fit has returned; the fold's scores are computed and recorded
CvScore ==
    /\ cvf.pc = "score"
    /\ LET s == FoldScores(model, cvf.scoring, cvf.ds_train, cvf.ds_test)
       IN IF s.kind = "raised"
          THEN Propagate(s)
          ELSE /\ cvf' = [cvf EXCEPT !.pc = "fold",
                                     !.i = cvf.i + 1,
                                     !.scores.train = Append(cvf.scores.train, s.value[1]),
                                     !.scores.test = Append(cvf.scores.test, s.value[2])]
               /\ UNCHANGED <<call, outcome, fitf, gsf, rsf>>
    /\ UNCHANGED <<model, Model, prev>>

\* line 55: the loop is over, scores is returned to whoever called
CvReturn ==
    /\ cvf.pc = "fold"
    /\ cvf.i >= cvf.cv
    /\ cvf' = CvOff
    /\ IF cvf.caller = "main"
       THEN /\ call' = Finished
            /\ outcome' = Returned(cvf.scores)
            /\ gsf' = gsf
       ELSE /\ gsf' = [gsf EXCEPT !.pc = "attach", !.score = cvf.scores]
            /\ UNCHANGED <<call, outcome>>
    /\ UNCHANGED <<model, Model, prev, fitf, rsf>>

----------------------------------------------------------------------------
(* Hyperparameter specifications: a dict as the sequence of its items,   *)
(* <<name, values>>, in insertion order                                   *)

Keys(spec) == [j \in 1..Len(spec) |-> spec[j][1]]
Values(spec) == [j \in 1..Len(spec) |-> spec[j][2]]

\* the first name of the specification that hasattr does not find, if any
RECURSIVE FirstUnknown(_, _)
FirstUnknown(m, names) ==
    IF names = <<>> THEN None
    ELSE IF ~hasattr(m, Head(names)) THEN <<Head(names)>>
    ELSE FirstUnknown(m, Tail(names))

\* a check that looks at the first name of the specification only
CheckNames_first_only(m, spec) ==
    IF spec = <<>> THEN Returned(None)
    ELSE IF hasattr(m, spec[1][1]) THEN Returned(None)
    ELSE Raised("AttributeError", spec[1][1])

\* the loop `for param in ...: if not hasattr(model, param): raise AttributeError`
CheckNames(m, spec) ==
    LET unknown == FirstUnknown(m, Keys(spec))
    IN IF unknown = None THEN Returned(None)
       ELSE Raised("AttributeError", unknown[1])

\* the dict `parameters` built from the names and the values of a combination
Parameters(names, comb) == [j \in 1..Len(names) |-> <<names[j], comb[j]>>]

\* setattr(m, param, value) for every item of parameters, in order
RECURSIVE SetAll(_, _)
SetAll(m, parameters) ==
    IF parameters = <<>> THEN m
    ELSE SetAll(setattr(m, Head(parameters)[1], Head(parameters)[2]),
                Tail(parameters))

\* score["parameters"] = parameters
WithParameters(scores, parameters) ==
    [seeds |-> scores.seeds, train |-> scores.train, test |-> scores.test,
     parameters |-> parameters]

----------------------------------------------------------------------------
(* grid_search_cv *)

\* every sequence of s prefixed with v
PrefixAll(v, s) == [j \in 1..Len(s) |-> <<v>> \o s[j]]

RECURSIVE Concat(_)
Concat(ss) == IF ss = <<>> THEN <<>> ELSE Head(ss) \o Concat(Tail(ss))

\* a product that takes only the first value of every list
Product_first_values(lists) ==
    IF \E k \in 1..Len(lists) : lists[k] = <<>> THEN <<>>
    ELSE << [k \in 1..Len(lists) |-> lists[k][1]] >>

\* itertools.product(*lists): the tuples in order, the first list varying slowest
RECURSIVE Product(_)
Product(lists) ==
    IF lists = <<>> THEN << <<>> >>
    ELSE LET rest == Product(Tail(lists))
             first == Head(lists)
         IN Concat([j \in 1..Len(first) |-> PrefixAll(first[j], rest)])

\* the model on which a combination's hyperparameters are set (line 55)
GridTarget(shared, parameters) == SetAll(shared, parameters)

\* the caller calls grid_search_cv(model, dataset, parameter_grid, cv, test_size, scoring)
GridSearchCv(dataset, parameter_grid, cv, test_size, scoring) ==
    /\ LET checked == CheckNames(model, parameter_grid)
       IN /\ Start("grid_search_cv",
                   [dataset |-> dataset, parameter_grid |-> parameter_grid,
                    cv |-> cv, test_size |-> test_size, scoring |-> scoring],
                   checked.kind # "raised")
          /\ IF checked.kind = "raised"
             THEN /\ outcome' = checked
                  /\ gsf' = gsf
             ELSE /\ outcome' = NoOutcome
                  /\ gsf' = [pc |-> "loop", parameter_grid |-> parameter_grid,
                             combs |-> Product(Values(parameter_grid)), k |-> 1,
                             parameters |-> <<>>, score |-> None, scores |-> <<>>]
    /\ UNCHANGED <<model, Model, fitf, cvf, rsf>>

\* lines 50-58: the next combination is set on the model and cross-validated
GsComb ==
    /\ gsf.pc = "loop"
    /\ gsf.k <= Len(gsf.combs)
    /\ LET parameters == Parameters(Keys(gsf.parameter_grid), gsf.combs[gsf.k])
           b == BindArgs("cross_validate", CrossValidateParams,
                         <<"model", call.args.dataset, call.args.cv,
                           call.args.test_size, call.args.scoring>>)
       IN /\ model' = GridTarget(model, parameters)
          /\ IF b.kind = "raised"
             THEN Propagate(b)
             ELSE /\ gsf' = [gsf EXCEPT !.pc = "wait", !.parameters = parameters]
                  /\ cvf' = CvFrame(b.value, "grid")
                  /\ UNCHANGED <<call, outcome, fitf, rsf>>
    /\ UNCHANGED <<Model, prev>>

\* lines 59-62: the combination is attached to the scores, which are appended
GsAppend ==
    /\ gsf.pc = "attach"
    /\ gsf' = [gsf EXCEPT !.pc = "loop",
                          !.k = gsf.k + 1,
                          !.score = None,
                          !.scores = Append(gsf.scores,
                                            WithParameters(gsf.score, gsf.parameters))]
    /\ UNCHANGED <<model, Model, call, outcome, prev, fitf, cvf, rsf>>

\* line 63: every combination is done
GsReturn ==
    /\ gsf.pc = "loop"
    /\ gsf.k > Len(gsf.combs)
    /\ gsf' = GsOff
    /\ call' = Finished
    /\ outcome' = Returned(gsf.scores)
    /\ UNCHANGED <<model, Model, prev, fitf, cvf, rsf>>

----------------------------------------------------------------------------
(* randomized_search_cv *)

\* check_params without the upper limit of test_size
check_params_without_upper_test_size(dataset, cv, n_iter, test_size) ==
    IF cv < 1 \/ cv > shape(dataset)[1] THEN Raised("ValueError", "cv")
    ELSE IF n_iter < 1 THEN Raised("ValueError", "n_iter")
    ELSE IF LeqZero(test_size) THEN Raised("ValueError", "test_size")
    ELSE Returned(None)

\* check_params of randomized_search.py
check_params(dataset, cv, n_iter, test_size) ==
    IF cv < 1 \/ cv > shape(dataset)[1] THEN Raised("ValueError", "cv")
    ELSE IF n_iter < 1 THEN Raised("ValueError", "n_iter")
    ELSE IF LeqZero(test_size) \/ ~Less(test_size, One)
         THEN Raised("ValueError", "test_size")
    ELSE Returned(None)

\* copy.deepcopy(m): an independent instance with the same state
deepcopy(m) == m

\* random_state if random_state is None else random_state + i
SeedHyper(random_state, i) ==
    IF random_state = None THEN None ELSE <<random_state[1] + i>>

\* np.random.RandomState(seed).choice(values): with a seed the draw is a
\* function of the seed and of the number of values; without one it is any
\* of the values (pick)
choice(seed, values, pick) ==
    IF seed = None THEN values[pick] ELSE values[(seed[1] % Len(values)) + 1]

\* the combination a trial samples, one draw per name with the same seed
Sampled(distribution, seed, picks) ==
    [j \in 1..Len(distribution) |->
        <<distribution[j][1], choice(seed, distribution[j][2], picks[j])>>]

\* the trial's setattr calls made on the caller's instance instead of the copy
TrialTarget_shared(shared, copy, parameters) == <<SetAll(shared, parameters), copy>>

\* the instances after the trial's setattr calls (line 101): <<model, Model>>
TrialTarget(shared, copy, parameters) == <<shared, SetAll(copy, parameters)>>

\* the picks an unseeded trial may draw
Picks(distribution) ==
    {p \in [1..Len(distribution) -> 1..MaxChoices] :
        \A j \in 1..Len(distribution) : p[j] <= Len(distribution[j][2])}

\* the caller calls randomized_search_cv(model, dataset, parameter_distribution,
\* cv, random_state, n_iter, test_size, scoring)
RandomizedSearchCv(dataset, parameter_distribution, cv, random_state, n_iter, test_size, scoring) ==
    LET args == [dataset |-> dataset,
                 parameter_distribution |-> parameter_distribution, cv |-> cv,
                 random_state |-> random_state, n_iter |-> n_iter,
                 test_size |-> test_size, scoring |-> scoring]
        checked == check_params(dataset, cv, n_iter, test_size)
        named == CheckNames(model, parameter_distribution)
        failed == IF checked.kind = "raised" THEN checked ELSE named
    IN /\ Start("randomized_search_cv", args, failed.kind # "raised")
       /\ IF failed.kind = "raised"
          THEN /\ outcome' = failed
               /\ rsf' = rsf
          ELSE /\ outcome' = NoOutcome
               /\ rsf' = [pc |-> "loop", i |-> 0, parameters |-> <<>>,
                          scores |-> <<>>]
       /\ UNCHANGED <<model, Model, fitf, cvf, gsf>>

\* lines 91-104: a trial copies the model, samples and sets a combination on
\* the copy and calls cross_validate(Model, dataset, cv, random_state,
\* test_size, scoring).  That call passes six positional arguments to the
\* five parameters of cross_validate, so it raises TypeError before the body
\* of cross_validate runs; lines 105-109 are never reached.
RsTrial ==
    /\ rsf.pc = "loop"
    /\ rsf.i < call.args.n_iter
    /\ \E picks \in Picks(call.args.parameter_distribution) :
       LET seed_hyper == SeedHyper(call.args.random_state, rsf.i)
           parameters == Sampled(call.args.parameter_distribution, seed_hyper, picks)
           targets == TrialTarget(model, deepcopy(model), parameters)
           b == BindArgs("cross_validate", CrossValidateParams,
                         <<"Model", call.args.dataset, call.args.cv,
                           call.args.random_state, call.args.test_size,
                           call.args.scoring>>)
       IN /\ model' = targets[1]
          /\ Model' = targets[2]
          /\ b.kind = "raised"
          /\ Propagate(b)
    /\ UNCHANGED prev

----------------------------------------------------------------------------

Next ==
    \/ \E l2 \in L2Values, a \in AlphaValues, mi \in MaxIterValues,
          tol \in ToleranceValues, ad \in BOOLEAN : Construct(l2, a, mi, tol, ad)
    \/ \E d \in FitDatasets : Fit(d)
    \/ RegularIter
    \/ AdaptativeIter
    \/ FitReturn
    \/ \E d \in FitDatasets : Predict(d)
    \/ \E d \in FitDatasets : Score(d)
    \/ \E d \in FitDatasets : Cost(d)
    \/ \E d \in CvDatasets, cv \in CvValues, sc \in Scorings :
          CrossValidate(d, cv, Half, sc)
    \/ \E seed \in Seeds : CvFold(seed)
    \/ CvScore
    \/ CvReturn
    \/ \E d \in CvDatasets, gc \in GridInputs, sc \in Scorings :
          GridSearchCv(d, gc[1], gc[2], Half, sc)
    \/ GsComb
    \/ GsAppend
    \/ GsReturn
    \/ \E d \in CvDatasets, g \in Distributions, cv \in RsCvValues,
          rs \in RandomStates, n \in 0..MaxNIter, ts \in TestSizes :
          RandomizedSearchCv(d, g, cv, rs, n, ts, "None")
    \/ RsTrial

Spec == Init /\ [][Next]_vars

----------------------------------------------------------------------------
(* Vocabulary of the properties *)

\* the public call fn has ended
Ended(fn) == call.fn = fn /\ ~call.active

\* the values of a sequence
Range(s) == {s[j] : j \in 1..Len(s)}

\* product of the lengths of the lists
RECURSIVE Sizes(_)
Sizes(lists) == IF lists = <<>> THEN 1 ELSE Len(Head(lists)) * Sizes(Tail(lists))

\* the Cartesian product of the lists, as a set of tuples
RECURSIVE ProductSet(_)
ProductSet(lists) ==
    IF lists = <<>> THEN {<<>>}
    ELSE {<<v>> \o r : v \in Range(Head(lists)), r \in ProductSet(Tail(lists))}

\* the tuple of values a record's 'parameters' carries
Combination(record) == [j \in 1..Len(record.parameters) |-> record.parameters[j][2]]

\* the names a record's 'parameters' carries
Names(record) == [j \in 1..Len(record.parameters) |-> record.parameters[j][1]]

\* no list repeats a value
NoRepeats(lists) ==
    \A k \in 1..Len(lists) : Cardinality(Range(lists[k])) = Len(lists[k])

\* the inputs of a randomized search that pass its validation
ValidSearchInputs(a) ==
    /\ a.n_iter >= 1
    /\ a.cv >= 1 /\ a.cv <= Len(a.dataset.X)
    /\ a.test_size[1] > 0 /\ a.test_size[1] < a.test_size[2]
    /\ \A name \in Range(Keys(a.parameter_distribution)) : name \in ModelAttributes

\* a score record carries exactly the four keys
IsSearchRecord(r) == DOMAIN r = {"seeds", "train", "test", "parameters"}

----------------------------------------------------------------------------
(* C1 *)

\* C1: for every n_iter >= 1 and otherwise valid input, randomized_search_cv
\* returns normally a list of exactly n_iter score records, each with the keys
\* seeds, train, test and parameters, the parameters naming the sampled
\* combination.  (Refuted: the call to cross_validate raises TypeError.)
RandomizedSearchReturnsNIterRecords ==
    (Ended("randomized_search_cv") /\ ValidSearchInputs(call.args)) =>
        /\ outcome.kind = "returned"
        /\ Len(outcome.value) = call.args.n_iter
        /\ \A j \in 1..Len(outcome.value) :
              /\ IsSearchRecord(outcome.value[j])
              /\ Names(outcome.value[j]) = Keys(call.args.parameter_distribution)

----------------------------------------------------------------------------
(* C2 *)

\* C2: with a fixed integer random_state, two invocations of
\* randomized_search_cv with identical inputs both return, and return the same
\* sampled combinations (trial i sampled with seed random_state + i) and the
\* same fold seeds, trial by trial.  (Refuted: neither invocation returns.)
SeededSearchIsReproducible ==
    (/\ Ended("randomized_search_cv")
     /\ prev.fn = "randomized_search_cv"
     /\ prev.repeated
     /\ prev.post = call.pre
     /\ call.args.random_state # None
     /\ ValidSearchInputs(call.args)) =>
        /\ outcome.kind = "returned"
        /\ prev.outcome.kind = "returned"
        /\ Len(outcome.value) = Len(prev.outcome.value)
        /\ \A j \in 1..Len(outcome.value) :
              /\ outcome.value[j].parameters = prev.outcome.value[j].parameters
              /\ outcome.value[j].seeds = prev.outcome.value[j].seeds
              /\ outcome.value[j].parameters =
                    Sampled(call.args.parameter_distribution,
                            <<call.args.random_state[1] + (j - 1)>>,
                            [k \in 1..Len(call.args.parameter_distribution) |-> 1])

----------------------------------------------------------------------------
(* C3 *)

\* the records grid_search_cv returned cover the product of the grid: as many
\* records as the product of the list sizes, each carrying the grid's names
\* and a tuple of the product, every tuple of the product carried by a record
GridCovered(records, grid) ==
    /\ Len(records) = Sizes(Values(grid))
    /\ \A j \in 1..Len(records) :
          /\ Names(records[j]) = Keys(grid)
          /\ Combination(records[j]) \in ProductSet(Values(grid))
    /\ \A c \in ProductSet(Values(grid)) :
          \E j \in 1..Len(records) : Combination(records[j]) = c

\* the combinations of the records are pairwise distinct
PairwiseDistinct(records) ==
    \A i, j \in 1..Len(records) :
        i # j => Combination(records[i]) # Combination(records[j])

\* C3 as stated: when grid_search_cv returns normally it returns
\* |v1|*...*|vn| records, each a product tuple, pairwise distinct, covering
\* the product.  (Refuted by a grid whose value list repeats a value.)
GridSearchReturnsDistinctProduct ==
    (Ended("grid_search_cv") /\ outcome.kind = "returned") =>
        /\ GridCovered(outcome.value, call.args.parameter_grid)
        /\ PairwiseDistinct(outcome.value)

\* C3 amended: when grid_search_cv returns normally it returns |v1|*...*|vn|
\* records, each a product tuple, covering the product; the combinations are
\* pairwise distinct when no value list of the grid repeats a value.
GridSearchReturnsProduct ==
    (Ended("grid_search_cv") /\ outcome.kind = "returned") =>
        /\ GridCovered(outcome.value, call.args.parameter_grid)
        /\ NoRepeats(Values(call.args.parameter_grid))
              => PairwiseDistinct(outcome.value)

\* a grid search over two names returned two records
GridSearchReturnedTwoByOne ==
    /\ Ended("grid_search_cv")
    /\ outcome.kind = "returned"
    /\ Len(call.args.parameter_grid) = 2
    /\ Len(outcome.value) = 2
    /\ Combination(outcome.value[1]) # Combination(outcome.value[2])

----------------------------------------------------------------------------
(* C4 *)

\* some name of the grid is not an attribute of the model
HasUnknownName(grid) == \E name \in Range(Keys(grid)) : name \notin ModelAttributes

\* C4: a grid_search_cv whose grid has a name the model lacks ends with the
\* unknown-parameter error (AttributeError) at once: it never has a loop,
\* cross-validation or fit in progress, and the model is as it was passed in.
UnknownNameFailsBeforeAnyWork ==
    (call.fn = "grid_search_cv" /\ HasUnknownName(call.args.parameter_grid)) =>
        /\ ~call.active
        /\ outcome.kind = "raised"
        /\ outcome.error = "AttributeError"
        /\ model = call.pre
        /\ gsf.pc = "off" /\ cvf.pc = "off" /\ fitf.pc = "off"

\* a grid whose second name is unknown was rejected
UnknownSecondNameRejected ==
    /\ Ended("grid_search_cv")
    /\ call.args.parameter_grid = G_unknown2
    /\ outcome.error = "AttributeError"
    /\ outcome.about = "unknown_param"

----------------------------------------------------------------------------
(* C5 *)

\* C5: during and after randomized_search_cv (also when it fails) the caller's
\* model is as it was passed in; the sampled values are set on the trial's
\* copy, which is the caller's model with exactly those values set.
SearchLeavesCallerModelAlone ==
    call.fn = "randomized_search_cv" =>
        /\ model = call.pre
        /\ (outcome.error = "TypeError") =>
              \E picks \in Picks(call.args.parameter_distribution) :
                  Model = SetAll(call.pre,
                                 Sampled(call.args.parameter_distribution,
                                         SeedHyper(call.args.random_state, 0),
                                         picks))

\* a trial has set, on its copy, values that differ from the caller's
TrialCopyDiffers ==
    /\ Ended("randomized_search_cv")
    /\ outcome.error = "TypeError"
    /\ Model.exists
    /\ Model.alpha # model.alpha
    /\ Model.max_iter # model.max_iter

----------------------------------------------------------------------------
(* C6 *)

\* C6: calling fit twice in succession with the same dataset leaves, after the
\* second fit, the model state the first fit left (theta, theta_zero, cost
\* history and hyperparameters, alpha included), in the non-adaptive and in the
\* adaptive policy, and fit returns the model itself.  (Refuted in the
\* adaptive policy: the first fit halves alpha and the second starts from it.)
RepeatedFitIsIdempotent ==
    (Ended("fit") /\ prev.fn = "fit" /\ prev.repeated) =>
        /\ outcome = Returned("self")
        /\ model = prev.post

----------------------------------------------------------------------------
(* C7 *)

\* the score an external scoring function gives to a partition: the function
\* applied to the partition's true labels and the model's predictions on it
ExternalScore(m, partition) == <<"score", partition.y, predict(m, partition).value>>

\* C7: in cross_validate every fold completes; with an external scoring
\* function a fold records scoring(train labels, predictions on train) and
\* scoring(test labels, predictions on test), without one it records
\* model.score(train) and model.score(test).  (Refuted: with an external
\* scoring function the fold raises NameError.)
FoldsRecordScores ==
    /\ Ended("cross_validate") =>
          /\ outcome.kind = "returned"
          /\ Len(outcome.value.train) = call.args.cv
          /\ Len(outcome.value.test) = call.args.cv
    /\ (cvf.pc = "fold" /\ cvf.i >= 1) =>
          /\ cvf.scores.train[cvf.i] =
                IF cvf.scoring = "None" THEN score(model, cvf.ds_train).value
                ELSE ExternalScore(model, cvf.ds_train)
          /\ cvf.scores.test[cvf.i] =
                IF cvf.scoring = "None" THEN score(model, cvf.ds_test).value
                ELSE ExternalScore(model, cvf.ds_test)

----------------------------------------------------------------------------
(* C8 *)

\* the number of iterations a fit on a fresh model has executed so far
Executed(m) == Cardinality(DOMAIN m.cost_history)

\* the call in progress or just ended is a non-adaptive fit on a model as
\* constructed
FreshRegularFit ==
    /\ call.fn = "fit"
    /\ ~call.pre.fitted
    /\ call.pre.cost_history = <<>>
    /\ ~call.pre.adaptative_alpha

\* C8: a non-adaptive fit on a freshly constructed model executes at least one
\* and at most max_iter iterations, and none after the first iteration i with
\* |cost[i] - cost[i-1]| < tolerance (cost[-1] = +infinity): the condition is
\* met by no iteration but the last one executed, and a fit that returns
\* before max_iter iterations returns right after an iteration that met it.
RegularFitStopsAtConvergence ==
    FreshRegularFit =>
        LET n == Executed(model)
        IN /\ n <= model.max_iter
           /\ DOMAIN model.cost_history = 0..(n - 1)
           /\ \A j \in 0..(n - 2) : ~BelowTolerance(model, j)
           /\ n = 0 \/ ~BelowTolerance(model, 0)
           /\ ~call.active =>
                 /\ n >= 1
                 /\ n < model.max_iter => BelowTolerance(model, n - 1)

\* a non-adaptive fit on a fresh model returned before max_iter iterations
RegularFitStoppedEarly ==
    /\ FreshRegularFit
    /\ ~call.active
    /\ outcome = Returned("self")
    /\ Executed(model) >= 2
    /\ Executed(model) < model.max_iter

----------------------------------------------------------------------------
(* C9 *)

\* C9: predict, score and cost called on an instance on which fit was never
\* called raise the unfitted-model exception of the operation called, return
\* no value and leave the instance as it was.
UnfittedCallsRaise ==
    (call.fn \in {"predict", "score", "cost"} /\ ~call.pre.fitted) =>
        /\ ~call.active
        /\ outcome.kind = "raised"
        /\ outcome.error = "Warning"
        /\ outcome.about = call.fn
        /\ outcome.value = None
        /\ model = call.pre

\* on a never-fitted instance score was refused, and then cost
UnfittedScoreThenCostRaised ==
    /\ Ended("cost")
    /\ ~model.fitted
    /\ outcome.kind = "raised"
    /\ prev.fn = "score"
    /\ prev.outcome.kind = "raised"

----------------------------------------------------------------------------
(* C10 *)

\* the constructor arguments violate one of the four constraints
ViolatesConstraints(a) ==
    \/ LeqZero(a.l2_penalty)
    \/ LeqZero(a.alpha)
    \/ a.max_iter < 1
    \/ LeqZero(a.tolerance)

\* C10: constructing RidgeRegression raises ValueError and creates no model
\* when l2_penalty <= 0, alpha <= 0, max_iter < 1 or tolerance <= 0; otherwise
\* it succeeds with an unfitted model carrying the arguments (fitted false,
\* theta and theta_zero None, empty cost history).
ConstructionValidates ==
    call.fn = "__init__" =>
        IF ViolatesConstraints(call.args)
        THEN /\ outcome.kind = "raised"
             /\ outcome.error = "ValueError"
             /\ ~model.exists
        ELSE /\ outcome.kind = "returned"
             /\ model.exists
             /\ ~model.fitted
             /\ model.theta = None
             /\ model.theta_zero = None
             /\ model.cost_history = <<>>
             /\ model.l2_penalty = call.args.l2_penalty
             /\ model.alpha = call.args.alpha
             /\ model.max_iter = call.args.max_iter
             /\ model.tolerance = call.args.tolerance
             /\ model.adaptative_alpha = call.args.adaptative_alpha

\* a construction whose only violated constraint is the tolerance was refused
ZeroToleranceRefused ==
    /\ call.fn = "__init__"
    /\ ~LeqZero(call.args.l2_penalty)
    /\ ~LeqZero(call.args.alpha)
    /\ call.args.max_iter >= 1
    /\ LeqZero(call.args.tolerance)
    /\ outcome.kind = "raised"
    /\ outcome.about = "tolerance"
    /\ ~model.exists

----------------------------------------------------------------------------
(* C11 *)

\* the numeric arguments of a randomized search that its validation refuses
RefusedSearchInputs(a) ==
    \/ a.cv < 1
    \/ a.cv > Len(a.dataset.X)
    \/ a.n_iter < 1
    \/ LeqZero(a.test_size)
    \/ ~Less(a.test_size, One)

\* C11: a step that starts randomized_search_cv with cv < 1, cv > number of
\* examples, n_iter < 1, test_size <= 0 or test_size >= 1 ends the call at once
\* with ValueError: no copy of the model is made (Model is untouched), nothing
\* is sampled, no trial, cross-validation or fit is started, and the caller's
\* model is unchanged.
RefusedSearchDoesNothing ==
    [][(/\ call' # call
        /\ call'.fn = "randomized_search_cv"
        /\ RefusedSearchInputs(call'.args)) =>
           /\ ~call'.active
           /\ outcome'.kind = "raised"
           /\ outcome'.error = "ValueError"
           /\ Model' = Model
           /\ model' = model
           /\ rsf'.pc = "off" /\ cvf'.pc = "off" /\ fitf'.pc = "off"]_vars

\* a search whose only refused argument is test_size = 1 was refused
UnitTestSizeRefused ==
    /\ Ended("randomized_search_cv")
    /\ call.args.cv = 1
    /\ call.args.n_iter = 1
    /\ call.args.test_size = One
    /\ outcome.error = "ValueError"
    /\ outcome.about = "test_size"

----------------------------------------------------------------------------
(* C12 *)

\* C12: without an external scoring function, cross_validate with cv = k
\* returns 'seeds', 'train' and 'test' of length exactly k, entry j of each
\* belonging to fold j: while the folds run the three sequences grow together,
\* one entry per fold, and the scores a fold adds are those of the model on
\* the partitions split with the seed the fold added.
FoldSequencesHaveLengthK ==
    /\ (Ended("cross_validate") /\ outcome.kind = "returned"
            /\ call.args.scoring = "None") =>
          /\ Len(outcome.value.seeds) = call.args.cv
          /\ Len(outcome.value.train) = call.args.cv
          /\ Len(outcome.value.test) = call.args.cv
    /\ (cvf.pc # "off" /\ cvf.scoring = "None") =>
          /\ cvf.i <= cvf.cv
          /\ Len(cvf.scores.train) = cvf.i
          /\ Len(cvf.scores.test) = cvf.i
          /\ Len(cvf.scores.seeds) = IF cvf.pc = "fold" THEN cvf.i ELSE cvf.i + 1
          /\ (cvf.pc = "fold" /\ cvf.i >= 1) =>
                LET parts == train_test_split(cvf.dataset, cvf.test_size,
                                              cvf.scores.seeds[cvf.i])
                IN /\ cvf.scores.train[cvf.i] = score(model, parts[1]).value
                   /\ cvf.scores.test[cvf.i] = score(model, parts[2]).value

\* a cross-validation of two folds with different seeds returned
TwoFoldsReturned ==
    /\ Ended("cross_validate")
    /\ outcome.kind = "returned"
    /\ call.args.scoring = "None"
    /\ call.args.cv = 2
    /\ Len(outcome.value.train) = 2
    /\ outcome.value.seeds[1] # outcome.value.seeds[2]

----------------------------------------------------------------------------
(* C13 *)

\* the iterations among the first n whose cost differs from the one before by
\* less than the tolerance
LowerIterations(m, n) == {j \in 0..(n - 1) : BelowTolerance(m, j)}

\* a halved k times
HalvedTimes(a, k) == Mul(a, <<1, Pow2(k)>>)

\* C13: an adaptive fit never stops early and halves alpha exactly once per
\* iteration i with |cost[i] - cost[i-1]| < tolerance (cost[-1] = +infinity):
\* after n iterations alpha is its value at the start of fit divided by
\* 2^(number of such iterations among the n), the other hyperparameters are as
\* at the start, and the fit returns after exactly max_iter iterations.
AdaptiveFitRunsToMaxIter ==
    (call.fn = "fit" /\ call.pre.adaptative_alpha) =>
        LET n == IF call.active THEN fitf.i ELSE model.max_iter
        IN /\ n <= model.max_iter
           /\ \A j \in 0..(n - 1) : j \in DOMAIN model.cost_history
           /\ model.alpha =
                 HalvedTimes(call.pre.alpha, Cardinality(LowerIterations(model, n)))
           /\ model.max_iter = call.pre.max_iter
           /\ model.tolerance = call.pre.tolerance
           /\ model.l2_penalty = call.pre.l2_penalty
           /\ model.adaptative_alpha
           /\ (~call.active /\ call.pre.cost_history = <<>>) =>
                 Executed(model) = model.max_iter

\* an adaptive fit on a fresh model returned after max_iter = 3 iterations,
\* two of which halved alpha
AdaptiveFitHalvedTwice ==
    /\ Ended("fit")
    /\ call.pre.adaptative_alpha
    /\ call.pre.cost_history = <<>>
    /\ Executed(model) = 3
    /\ Cardinality(LowerIterations(model, 3)) = 2
    /\ model.alpha = Mul(call.pre.alpha, <<1, 4>>)

----------------------------------------------------------------------------
(* C14 *)

\* a fit has executed its last iteration and is about to return self
FitLoopOver ==
    /\ fitf.pc = "loop"
    /\ IF fitf.adaptative THEN ~AdaptativeContinues(model, fitf)
                          ELSE ~RegularContinues(model, fitf)

\* C14: when a fit returns, the cost history holds exactly the entries that
\* fit recorded: its keys are 0 .. n-1, n the number of iterations the fit
\* executed, whatever fits came before.  (Refuted: fit never empties the
\* history, so a fit of fewer iterations keeps entries of an earlier one.)
CostHistoryIsOfLastFit ==
    FitLoopOver => DOMAIN model.cost_history = 0..(fitf.i - 1)

----------------------------------------------------------------------------
(* C15 *)

\* a fold of a grid search is at the start of its fit
GridFoldFitStarts ==
    /\ call.fn = "grid_search_cv"
    /\ cvf.caller = "grid"
    /\ fitf.pc = "loop"
    /\ fitf.caller = "cv"
    /\ fitf.i = 0

\* C15: every fold fit of a grid search starts with the model's
\* hyperparameters equal to the values of the combination being evaluated
\* (setting the combination again would change nothing).  (Refuted: in the
\* adaptive policy a fold's fit halves alpha, and the next fold of the same
\* combination starts from the halved alpha.)
GridFoldsUseCombination ==
    GridFoldFitStarts => model = SetAll(model, gsf.parameters)

----------------------------------------------------------------------------
(* C16 *)

\* C16: in every reachable state the hyperparameters of the model satisfy the
\* constructor's constraints l2_penalty > 0, alpha > 0, max_iter >= 1 and
\* tolerance > 0.  (Refuted: grid_search_cv installs a grid value with
\* setattr, which validates nothing.)
HyperparametersStayValid ==
    model.exists =>
        /\ ~LeqZero(model.l2_penalty)
        /\ ~LeqZero(model.alpha)
        /\ model.max_iter >= 1
        /\ ~LeqZero(model.tolerance)

====
